---- MODULE Spec2Model ----
(***************************************************************************)
(* Model of the bank review pipeline: the ReviewPreprocessor of            *)
(* preprocessing.py (load, six passes, save, report) and the loader of     *)
(* db_operations.py (input validation, connection, table creation,         *)
(* dimension upsert, fact insert).                                         *)
(*                                                                         *)
(* A CSV cell is a sequence of one-character strings. A rating is held in  *)
(* tenths (3.5 is 35) so that non-integral ratings are representable.      *)
(***************************************************************************)
EXTENDS Integers, Sequences, FiniteSets, TLC

\* ------------------------------------------------------------------ bounds

\* Largest number of rows of the raw scrape file.
MaxBatch == 3

\* Largest number of rows of the final artifact.
MaxRows == 2

\* Largest number of loader runs.
MaxRuns == 2

\* ------------------------------------------------------------ cell helpers

\* A dataframe cell: missing (NaN) or a value.
NA == [na |-> TRUE]
Val(x) == [na |-> FALSE, v |-> x]

SeqToSet(s) == {s[i] : i \in 1..Len(s)}

\* The rows of s at the positions of K, in order.
RECURSIVE SelectFrom(_, _, _)
SelectFrom(s, i, K) ==
    IF i > Len(s) THEN <<>>
    ELSE (IF i \in K THEN <<s[i]>> ELSE <<>>) \o SelectFrom(s, i + 1, K)

SelectPos(s, K) == SelectFrom(s, 1, K)

\* pandas.read_csv default na_values (the ones the cells of this model can hit).
NaStrings == {<<>>, <<"N", "A">>, <<"N", "/", "A">>, <<"n", "a", "n">>}

ReadCell(c) == IF c \in NaStrings THEN NA ELSE Val(c)

\* ------------------------------------------------------------ text cleaning

Whitespace == {" ", "\n", "\r", "\t"}
Newlines == {"\n", "\r"}

Lower(c) ==
    CASE c = "A" -> "a"
      [] c = "B" -> "b"
      [] c = "G" -> "g"
      [] c = "W" -> "w"
      [] OTHER -> c

RECURSIVE DropWhileIn(_, _)
DropWhileIn(s, S) ==
    IF s = <<>> THEN <<>>
    ELSE IF Head(s) \in S THEN DropWhileIn(Tail(s), S) ELSE s

\* re.sub(r'[S]+', ' ', s): every maximal run of characters of S becomes one space.
RECURSIVE SubRuns(_, _)
SubRuns(s, S) ==
    IF s = <<>> THEN <<>>
    ELSE IF Head(s) \in S
         THEN <<" ">> \o SubRuns(DropWhileIn(Tail(s), S), S)
         ELSE <<Head(s)>> \o SubRuns(Tail(s), S)

RECURSIVE Reverse(_)
Reverse(s) == IF s = <<>> THEN <<>> ELSE Reverse(Tail(s)) \o <<Head(s)>>

\* str.strip()
Strip(s) == Reverse(DropWhileIn(Reverse(DropWhileIn(s, Whitespace)), Whitespace))

\* basic_text_clean: NaN is passed through; otherwise lower, newline runs to a
\* space, whitespace runs to a space, strip.
basic_text_clean(cell) ==
    IF cell.na THEN cell
    ELSE Val(Strip(SubRuns(SubRuns([i \in 1..Len(cell.v) |-> Lower(cell.v[i])],
                                   Newlines), Whitespace)))

\* ------------------------------------------------------------ number parsing

Digits == {"0", "1", "2", "3", "4", "5", "6", "7", "8", "9"}

DigitVal(c) ==
    CASE c = "0" -> 0 [] c = "1" -> 1 [] c = "2" -> 2 [] c = "3" -> 3
      [] c = "4" -> 4 [] c = "5" -> 5 [] c = "6" -> 6 [] c = "7" -> 7
      [] c = "8" -> 8 [] c = "9" -> 9

RECURSIVE DigitsValue(_)
DigitsValue(s) ==
    IF s = <<>> THEN 0
    ELSE 10 * DigitsValue(SubSeq(s, 1, Len(s) - 1)) + DigitVal(s[Len(s)])

AllDigits(s) == s # <<>> /\ \A i \in 1..Len(s) : s[i] \in Digits

\* A cell is numeric when it is digits, optionally followed by '.' and one digit.
IsNumeric(s) ==
    \/ AllDigits(s)
    \/ /\ Len(s) >= 3
       /\ s[Len(s) - 1] = "."
       /\ s[Len(s)] \in Digits
       /\ AllDigits(SubSeq(s, 1, Len(s) - 2))

\* The value of a numeric cell, in tenths.
NumberTenths(s) ==
    IF AllDigits(s) THEN 10 * DigitsValue(s)
    ELSE 10 * DigitsValue(SubSeq(s, 1, Len(s) - 2)) + DigitVal(s[Len(s)])

\* pd.to_numeric(errors='coerce') on one cell: the number, or NaN.
to_numeric(cell) ==
    IF cell.na THEN NA
    ELSE IF IsNumeric(cell.v) THEN Val(NumberTenths(cell.v)) ELSE NA

\* Series.astype(int) on one value: truncation toward zero (values are >= 0).
astype_int(tenths) == tenths \div 10

\* ------------------------------------------------------------------- dates

\* A review_date cell: empty, text that is no timestamp, or a timestamp with a
\* UTC offset (day number, hour of day, offset in hours).
EmptyDate == [kind |-> "empty", day |-> 0, hour |-> 0, tz |-> 0]
BadDate == [kind |-> "text", day |-> 0, hour |-> 0, tz |-> 0]
Timestamp(d, h, z) == [kind |-> "ts", day |-> d, hour |-> h, tz |-> z]

ReadDateCell(c) == IF c.kind = "empty" THEN NA ELSE Val(c)

Parseable(cell) == cell.v.kind = "ts"

\* pd.to_datetime(utc=True).dt.date: the calendar day of the instant in UTC.
\* (\div rounds toward minus infinity.)
to_utc_date(c) == c.day + ((c.hour - c.tz) \div 24)

\* --------------------------------------------------------- configuration

\* config.BANK_NAMES
BANK_NAMES ==
    [CBE |-> "Commercial Bank of Ethiopia",
     BOA |-> "Bank of Abyssinia",
     Dashen |-> "Dashen Bank"]

\* BANK_NAMES.get(code, code)
BankNameOf(code) == IF code \in DOMAIN BANK_NAMES THEN BANK_NAMES[code] ELSE code

\* The KPI thresholds of generate_report.
MinReviewsKpi == 1200
MaxLossPctKpi == 5

\* ------------------------------------------------------- the raw scrape file

\* One row of reviews_raw.csv as PlayStoreScraper._format_review writes it
\* (the columns the preprocessor reads).
RawRow(t, r, d, rc, b, a) ==
    [review_text |-> t, rating |-> r, review_date |-> d,
     reply_content |-> rc, bank_code |-> b, app_id |-> a]

TextCells == {<<>>, <<" ", "\n">>, <<"a">>, <<"A", " ">>}
RatingCells ==
    {<<>>, <<"x">>, <<"0">>, <<"3">>, <<"3", ".", "5">>, <<"5">>, <<"6">>}
DateCells == {EmptyDate, BadDate, Timestamp(10, 23, -2)}
ReplyCells == {<<>>, <<"O", "k", "\n">>}
BankCodes == {"CBE", "BOA"}
AppIdCells == {<<"N", "/", "A">>, <<"1">>}

\* A well-formed row, and the rows that differ from it in at most one column.
BaseRow == RawRow(<<"a">>, <<"3">>, Timestamp(10, 23, -2), <<>>, "CBE", <<"N", "/", "A">>)

Deviations(row) == Cardinality({f \in DOMAIN BaseRow : row[f] # BaseRow[f]})

RawRows ==
    {row \in [review_text : TextCells, rating : RatingCells, review_date : DateCells,
              reply_content : ReplyCells, bank_code : BankCodes, app_id : AppIdCells] :
        Deviations(row) <= 1}

RawBatches == UNION {[1..n -> RawRows] : n \in 0..MaxBatch}

\* ------------------------------------------------------------- preprocessor

VARIABLES
    rawFile,   \* the raw CSV: [exists, rows]
    df,        \* self.df: the rows of the working dataframe, in order
    dfPrev,    \* self.df as the pass that ran last found it
    hasDate,   \* whether the dataframe has the 'date' column
    dateError, \* normalize_dates' except clause ran ("ERROR during date normalization")
    stats,     \* self.stats
    npc,       \* where process() is
    output,    \* the processed CSV: [written, rows]
    report     \* what generate_report computed

nvars == <<rawFile, df, dfPrev, hasDate, dateError, stats, npc, output, report>>

VARIABLES
    artifact,     \* reviews_final.csv: [state, rows]
    lpc,          \* where main() is
    run,          \* number of loader runs started
    attempt,      \* connect_to_db: the loop variable
    sleeps,       \* connect_to_db: the time.sleep calls of this run, in order
    connectCalls, \* psycopg2.connect calls of this run
    conn,         \* main's conn: "none", "open" or "closed"
    tablesExist,  \* the store: banks and reviews tables exist
    banks,        \* the store: committed rows of banks
    reviews,      \* the store: committed rows of reviews
    bankSeq,      \* the store: next value of banks.bank_id's sequence
    reviewSeq,    \* the store: next value of reviews.review_id's sequence
    lookup,       \* bank_id_lookup: set of <<bank_code, bank_id>>
    everInserted, \* the bank codes of the committed insert_banks calls
    err,          \* the exception main's try block ended with, or "none"
    outcome,      \* how the run ended
    exitCode,     \* the process exit status of the run, -1 while it runs
    atStart,      \* the store as it was when the run started
    runLog        \* one record per finished run

lvars == <<artifact, lpc, run, attempt, sleeps, connectCalls, conn, tablesExist,
           banks, reviews, bankSeq, reviewSeq, lookup, everInserted, err, outcome,
           exitCode, atStart, runLog>>

store == <<tablesExist, banks, reviews, bankSeq, reviewSeq>>

NoStats == [k \in {} |-> 0]
NoReport == [printed |-> FALSE]

\* self.stats.get(k, 0)
StatGet(k) == IF k \in DOMAIN stats THEN stats[k] ELSE 0

StatSet(st, k, x) == [j \in DOMAIN st \cup {k} |-> IF j = k THEN x ELSE st[j]]

\* pd.read_csv: one dataframe row per CSV row, the index its position (from 0).
ReadRow(rows, i) ==
    [index |-> i - 1,
     review_text |-> ReadCell(rows[i].review_text),
     rating |-> ReadCell(rows[i].rating),
     review_date |-> ReadDateCell(rows[i].review_date),
     reply_content |-> ReadCell(rows[i].reply_content),
     bank_code |-> rows[i].bank_code,
     bank_name |-> BankNameOf(rows[i].bank_code),
     app_id |-> ReadCell(rows[i].app_id),
     source |-> "Google Play Store"]

\* load_data, the file is there and readable.
LoadDataOk ==
    /\ npc = "load_data"
    /\ rawFile.exists
    /\ df' = [i \in 1..Len(rawFile.rows) |-> ReadRow(rawFile.rows, i)]
    /\ stats' = StatSet(stats, "original_count", Len(rawFile.rows))
    /\ dfPrev' = df
    /\ npc' = "remove_duplicates"
    /\ UNCHANGED <<rawFile, hasDate, dateError, output, report>>
    /\ UNCHANGED lvars

\* load_data, FileNotFoundError (or any other error): process() returns False.
LoadDataFail ==
    /\ npc = "load_data"
    /\ ~rawFile.exists
    /\ npc' = "returned_false"
    /\ UNCHANGED <<rawFile, df, dfPrev, hasDate, dateError, stats, output, report>>
    /\ UNCHANGED lvars

\* drop_duplicates(subset=['review_text', 'bank_code'], keep='first'): the
\* positions kept. NaN equals NaN here.
SameDupKey(a, b) == a.review_text = b.review_text /\ a.bank_code = b.bank_code

\* keep='last'
DedupKeepLast(rows) ==
    {i \in 1..Len(rows) : \A j \in (i + 1)..Len(rows) : ~SameDupKey(rows[j], rows[i])}

\* drop_duplicates without inplace=True: the result is thrown away and every
\* row stays.
DedupKeepAll(rows) == 1..Len(rows)

DedupKeep(rows) ==
    {i \in 1..Len(rows) : \A j \in 1..(i - 1) : ~SameDupKey(rows[j], rows[i])}

remove_duplicates ==
    /\ npc = "remove_duplicates"
    /\ df' = SelectPos(df, DedupKeep(df))
    /\ stats' = StatSet(stats, "duplicates_removed", Len(df) - Len(df'))
    /\ dfPrev' = df
    /\ npc' = "handle_missing_values"
    /\ UNCHANGED <<rawFile, hasDate, dateError, output, report>>
    /\ UNCHANGED lvars

\* dropna over review_text and rating only.
CriticalKeepNoDate(rows) ==
    {i \in 1..Len(rows) : ~rows[i].review_text.na /\ ~rows[i].rating.na}

\* dropna(subset=critical_cols): the positions kept.
CriticalKeep(rows) ==
    {i \in 1..Len(rows) :
        ~rows[i].review_text.na /\ ~rows[i].rating.na /\ ~rows[i].review_date.na}

\* Series.fillna(x)
fillna(cell, x) == IF cell.na THEN Val(x) ELSE cell

handle_missing_values ==
    /\ npc = "handle_missing_values"
    /\ LET kept == SelectPos(df, CriticalKeep(df))
       IN /\ df' = [i \in 1..Len(kept) |->
                      [kept[i] EXCEPT !.reply_content = fillna(@, <<>>),
                                      !.app_id = fillna(@, <<"N", "/", "A">>)]]
          /\ stats' = StatSet(StatSet(stats, "rows_removed_missing", Len(df) - Len(kept)),
                              "count_after_missing", Len(kept))
    /\ dfPrev' = df
    /\ npc' = "normalize_dates"
    /\ UNCHANGED <<rawFile, hasDate, dateError, output, report>>
    /\ UNCHANGED lvars

\* normalize_dates: to_datetime raises on the first cell that is no timestamp;
\* the except clause prints and returns, and the 'date' column is not created.
AllParseable(rows) == \A i \in 1..Len(rows) : Parseable(rows[i].review_date)

normalize_dates ==
    /\ npc = "normalize_dates"
    /\ IF AllParseable(df)
       THEN /\ df' = [i \in 1..Len(df) |->
                        [date |-> to_utc_date(df[i].review_date.v)] @@ df[i]]
            /\ hasDate' = TRUE
            /\ UNCHANGED dateError
       ELSE /\ dateError' = TRUE
            /\ UNCHANGED <<df, hasDate>>
    /\ dfPrev' = df
    /\ npc' = "clean_text"
    /\ UNCHANGED <<rawFile, stats, output, report>>
    /\ UNCHANGED lvars

clean_text ==
    /\ npc = "clean_text"
    /\ df' = [i \in 1..Len(df) |->
                [df[i] EXCEPT !.review_text = basic_text_clean(@),
                              !.reply_content = basic_text_clean(@)]]
    /\ dfPrev' = df
    /\ npc' = "validate_ratings"
    /\ UNCHANGED <<rawFile, hasDate, dateError, stats, output, report>>
    /\ UNCHANGED lvars

\* The rows validate_ratings keeps, of rows whose rating is already numeric:
\* dropna, then 1 <= rating <= 5.
RatingKeep(rows) ==
    {i \in 1..Len(rows) : ~rows[i].rating.na /\ rows[i].rating.v >= 10 /\ rows[i].rating.v <= 50}

\* initial_count taken after the dropna.
RatingRemovedAfterDropna(coerced, kept) ==
    Cardinality({i \in 1..Len(coerced) : ~coerced[i].rating.na}) - Len(kept)

\* removed = initial_count - len(self.df), initial_count taken before the dropna.
RatingRemoved(coerced, kept) == Len(coerced) - Len(kept)

validate_ratings ==
    /\ npc = "validate_ratings"
    /\ LET coerced == [i \in 1..Len(df) |-> [df[i] EXCEPT !.rating = to_numeric(@)]]
           kept == SelectPos(coerced, RatingKeep(coerced))
       IN /\ df' = kept
          /\ stats' = StatSet(stats, "rows_removed_invalid_rating",
                              RatingRemoved(coerced, kept))
    /\ dfPrev' = df
    /\ npc' = "prepare_final_output"
    /\ UNCHANGED <<rawFile, hasDate, dateError, output, report>>
    /\ UNCHANGED lvars

\* prepare_final_output: rename, select the five columns, rating.astype(int).
FinalRow(r) ==
    [index |-> r.index,
     review |-> r.review_text,
     rating |-> astype_int(r.rating.v),
     date |-> r.date,
     bank |-> r.bank_name,
     source |-> "Google Play Store"]

prepare_final_output_ok ==
    /\ npc = "prepare_final_output"
    /\ hasDate
    /\ df' = [i \in 1..Len(df) |-> FinalRow(df[i])]
    /\ dfPrev' = df
    /\ npc' = "save_data"
    /\ UNCHANGED <<rawFile, hasDate, dateError, stats, output, report>>
    /\ UNCHANGED lvars

\* Selecting the column 'date' that normalize_dates did not create raises
\* KeyError, which nothing in process() catches.
prepare_final_output_raise ==
    /\ npc = "prepare_final_output"
    /\ ~hasDate
    /\ npc' = "raised"
    /\ UNCHANGED <<rawFile, df, dfPrev, hasDate, dateError, stats, output, report>>
    /\ UNCHANGED lvars

\* save_data: to_csv writes every row of the dataframe.
save_data_ok ==
    /\ npc = "save_data"
    /\ output' = [written |-> TRUE, rows |-> df]
    /\ stats' = StatSet(stats, "final_count", Len(df))
    /\ npc' = "generate_report"
    /\ UNCHANGED <<rawFile, df, dfPrev, hasDate, dateError, report>>
    /\ UNCHANGED lvars

\* save_data: makedirs or to_csv raises; process() returns False.
save_data_fail ==
    /\ npc = "save_data"
    /\ npc' = "returned_false"
    /\ UNCHANGED <<rawFile, df, dfPrev, hasDate, dateError, stats, output, report>>
    /\ UNCHANGED lvars

\* data_loss_pct, in hundredths of a percent (what the report prints with %.2f,
\* rounded down).
DataLossPct(total_removed, original_count) ==
    IF original_count > 0 THEN (total_removed * 10000) \div original_count ELSE 0

generate_report ==
    /\ npc = "generate_report"
    /\ LET missing_count == StatGet("rows_removed_missing")
           total_removed == StatGet("duplicates_removed") + missing_count
                              + StatGet("rows_removed_invalid_rating")
           original_count == StatGet("original_count")
           final_count == StatGet("final_count")
           data_loss_pct == DataLossPct(total_removed, original_count)
       IN report' = [printed |-> TRUE,
                     original_count |-> original_count,
                     duplicates_removed |-> StatGet("duplicates_removed"),
                     missing_or_invalid |-> missing_count
                                              + StatGet("rows_removed_invalid_rating"),
                     final_count |-> final_count,
                     total_removed |-> total_removed,
                     data_loss_pct |-> data_loss_pct,
                     reviews_collected_kpi |-> final_count >= MinReviewsKpi,
                     missing_data_kpi |-> data_loss_pct < MaxLossPctKpi * 100]
    /\ npc' = "returned_true"
    /\ UNCHANGED <<rawFile, df, dfPrev, hasDate, dateError, stats, output>>
    /\ UNCHANGED lvars

\* ------------------------------------------------------- the final artifact

\* required_cols of main
RequiredCols ==
    {"bank_code", "review_text", "rating", "review_date", "sentiment_label",
     "sentiment_score", "identified_theme"}

\* One row of reviews_final.csv as read by read_csv (the columns that decide
\* what the loader does): bank_code and rating are cells, NaN when empty.
FinalCsvRow(b, r) == [bank_code |-> b, review_text |-> "good app", rating |-> r]

LoadBankCells == {Val("CBE"), Val("BOA"), Val("Awash"), NA}
LoadRatingCells == {Val(3), Val(5), Val(7), NA}

BaseFinalRow == FinalCsvRow(Val("CBE"), Val(3))

FinalCsvRows ==
    {FinalCsvRow(b, BaseFinalRow.rating) : b \in LoadBankCells}
        \cup {FinalCsvRow(BaseFinalRow.bank_code, r) : r \in LoadRatingCells}

FinalBatches == UNION {[1..n -> FinalCsvRows] : n \in 0..MaxRows}

\* What can be wrong with the file at DATA_PATHS['final_results'].
FileStates == {"ok", "missing", "unreadable", "no_theme_column"}

ColumnsOf(state) ==
    IF state = "no_theme_column" THEN RequiredCols \ {"identified_theme"} ELSE RequiredCols

\* ------------------------------------------------------------------ loader

\* connect_to_db: max_retries
max_retries == 3

\* A wait of 2 * attempt seconds.
Twice(n) == 2 * n

\* 2 ** attempt
RECURSIVE Pow2(_)
Pow2(n) == IF n = 0 THEN 1 ELSE 2 * Pow2(n - 1)

Snapshot == [tablesExist |-> tablesExist, banks |-> banks, reviews |-> reviews]

\* A run begins: main() is called. Between runs the file may have been
\* removed, damaged, or restored.
StartRun ==
    /\ lpc \in {"idle", "exited"}
    /\ run < MaxRuns
    /\ \E st \in FileStates : artifact' = [artifact EXCEPT !.state = st]
    /\ run' = run + 1
    /\ lpc' = "main"
    /\ attempt' = 0
    /\ sleeps' = <<>>
    /\ connectCalls' = 0
    /\ conn' = "none"
    /\ lookup' = {}
    /\ err' = "none"
    /\ outcome' = "running"
    /\ exitCode' = -1
    /\ atStart' = Snapshot
    /\ UNCHANGED <<everInserted, store, runLog>>
    /\ UNCHANGED nvars

\* main returns (or sys.exit's SystemExit leaves it): the process ends.
Exit(how, code) ==
    /\ lpc' = "exited"
    /\ outcome' = how
    /\ exitCode' = code
    /\ runLog' = Append(runLog, [outcome |-> how, exitCode |-> code,
                                 rows |-> artifact.rows, facts |-> Len(reviews),
                                 factsAtStart |-> Len(atStart.reviews)])

\* The input checks without the required_cols test.
InputProblemNoColumnCheck(a) ==
    IF a.state = "missing" THEN "input_missing"
    ELSE IF a.state = "unreadable" THEN "input_unreadable"
    ELSE "none"

\* main: the three input checks, each a plain return.
InputProblem(a) ==
    IF a.state = "missing" THEN "input_missing"
    ELSE IF a.state = "unreadable" THEN "input_unreadable"
    ELSE IF ~(RequiredCols \subseteq ColumnsOf(a.state)) THEN "columns_missing"
    ELSE "none"

InputAbort ==
    /\ lpc = "main"
    /\ InputProblem(artifact) # "none"
    /\ Exit(InputProblem(artifact), 0)
    /\ UNCHANGED <<everInserted, artifact, run, attempt, sleeps, connectCalls, conn, store,
                   lookup, err, atStart>>
    /\ UNCHANGED nvars

InputOk ==
    /\ lpc = "main"
    /\ InputProblem(artifact) = "none"
    /\ lpc' = "connect"
    /\ UNCHANGED <<everInserted, artifact, run, attempt, sleeps, connectCalls, conn, store,
                   lookup, err, outcome, exitCode, atStart, runLog>>
    /\ UNCHANGED nvars

\* connect_to_db, one iteration of the loop: psycopg2.connect succeeds.
ConnectOk ==
    /\ lpc = "connect"
    /\ attempt < max_retries
    /\ connectCalls' = connectCalls + 1
    /\ conn' = "open"
    /\ lpc' = "create_tables"
    /\ UNCHANGED <<everInserted, artifact, run, attempt, sleeps, store, lookup, err, outcome,
                   exitCode, atStart, runLog>>
    /\ UNCHANGED nvars

\* connect_to_db, one iteration: OperationalError, not the last attempt.
ConnectRetry ==
    /\ lpc = "connect"
    /\ attempt < max_retries - 1
    /\ connectCalls' = connectCalls + 1
    /\ sleeps' = Append(sleeps, Pow2(attempt))
    /\ attempt' = attempt + 1
    /\ UNCHANGED <<everInserted, artifact, lpc, run, conn, store, lookup, err, outcome,
                   exitCode, atStart, runLog>>
    /\ UNCHANGED nvars

\* connect_to_db, the last iteration fails: it returns None and main returns;
\* the finally clause finds no connection to close.
ConnectGiveUp ==
    /\ lpc = "connect"
    /\ attempt = max_retries - 1
    /\ connectCalls' = connectCalls + 1
    /\ Exit("no_connection", 0)
    /\ UNCHANGED <<everInserted, artifact, run, attempt, sleeps, conn, store, lookup, err, atStart>>
    /\ UNCHANGED nvars

\* create_tables: CREATE TABLE IF NOT EXISTS twice, the ALTER, commit.
create_tables_ok ==
    /\ lpc = "create_tables"
    /\ tablesExist' = TRUE
    /\ lpc' = "insert_banks"
    /\ UNCHANGED <<everInserted, artifact, run, attempt, sleeps, connectCalls, conn, banks,
                   reviews, bankSeq, reviewSeq, lookup, err, outcome, exitCode,
                   atStart, runLog>>
    /\ UNCHANGED nvars

\* create_tables: a statement fails; rollback, re-raise.
create_tables_fail ==
    /\ lpc = "create_tables"
    /\ err' = "create_tables"
    /\ lpc' = "except"
    /\ UNCHANGED <<everInserted, artifact, run, attempt, sleeps, connectCalls, conn, store,
                   lookup, outcome, exitCode, atStart, runLog>>
    /\ UNCHANGED nvars

\* df['bank_code'].unique(): the distinct cells in order of first appearance.
Unique(rows) ==
    LET first == {i \in 1..Len(rows) :
                    \A j \in 1..(i - 1) : rows[j].bank_code # rows[i].bank_code}
        kept == SelectPos(rows, first)
    IN [i \in 1..Len(kept) |-> kept[i].bank_code]

\* What psycopg2 sends for a cell: a float NaN arrives in a VARCHAR column as
\* the text 'NaN'.
Adapt(cell) == IF cell.na THEN "NaN" ELSE cell.v

\* INSERT INTO banks ... with no conflict clause and no unique constraint.
InsertBankAlways(tbl, id, code) ==
    Append(tbl, [bank_id |-> id, bank_code |-> Adapt(code),
                 bank_name |-> Adapt(IF code.na THEN code ELSE Val(BankNameOf(code.v)))])

\* INSERT INTO banks ... ON CONFLICT (bank_code) DO NOTHING, one statement.
InsertBank(tbl, id, code) ==
    IF \E i \in 1..Len(tbl) : tbl[i].bank_code = Adapt(code)
    THEN tbl
    ELSE Append(tbl, [bank_id |-> id, bank_code |-> Adapt(code),
                      bank_name |-> Adapt(IF code.na THEN code
                                          ELSE Val(BankNameOf(code.v)))])

\* execute_batch over bank_data: every statement draws the next bank_id from
\* the sequence, also when the row conflicts.
RECURSIVE InsertBanksBatch(_, _, _)
InsertBanksBatch(tbl, seq, codes) ==
    IF codes = <<>> THEN tbl
    ELSE InsertBanksBatch(InsertBank(tbl, seq, Head(codes)), seq + 1, Tail(codes))

\* SELECT bank_id, bank_code FROM banks, as the dict main gets.
LookupOf(tbl) == {<<tbl[i].bank_code, tbl[i].bank_id>> : i \in 1..Len(tbl)}

\* bank_id_lookup.get(row['bank_code']): 0 stands for None. A NaN cell is a
\* float and equals no key.
LookupGet(lk, cell) ==
    IF cell.na \/ ~(\E p \in lk : p[1] = cell.v) THEN 0
    ELSE (CHOOSE p \in lk : p[1] = cell.v)[2]

insert_banks_ok ==
    /\ lpc = "insert_banks"
    /\ LET codes == Unique(artifact.rows)
       IN /\ banks' = InsertBanksBatch(banks, bankSeq, codes)
          /\ bankSeq' = bankSeq + Len(codes)
    /\ lookup' = LookupOf(banks')
    /\ everInserted' = everInserted \cup {Adapt(c) : c \in SeqToSet(Unique(artifact.rows))}
    /\ IF lookup' = {}
       THEN /\ lpc' = "finally"
            /\ outcome' = "empty_lookup"
       ELSE /\ lpc' = "insert_reviews"
            /\ UNCHANGED outcome
    /\ UNCHANGED <<artifact, run, attempt, sleeps, connectCalls, conn,
                   tablesExist, reviews, reviewSeq, err, exitCode, atStart, runLog>>
    /\ UNCHANGED nvars

\* A phase that ends without conn.rollback(): the work of the open
\* transaction stays in the table.
NotRolledBack(committed, work) == work

\* conn.rollback() in the except clause of insert_banks and insert_reviews:
\* the table is again what was committed before the phase, whatever the
\* statements of the open transaction had written.
RolledBack(committed, work) == committed

\* insert_banks: the store raises after k statements of the loop; rollback,
\* re-raise. Nothing of the phase stays, but the sequence values drawn by the
\* k statements are not given back.
insert_banks_fail ==
    /\ lpc = "insert_banks"
    /\ \E k \in 0..Len(Unique(artifact.rows)) :
          /\ banks' = RolledBack(banks,
                          InsertBanksBatch(banks, bankSeq,
                              SubSeq(Unique(artifact.rows), 1, k)))
          /\ bankSeq' = bankSeq + k
    /\ err' = "insert_banks"
    /\ lpc' = "except"
    /\ UNCHANGED <<everInserted, artifact, run, attempt, sleeps, connectCalls, conn,
                   tablesExist, reviews, reviewSeq,
                   lookup, outcome, exitCode, atStart, runLog>>
    /\ UNCHANGED nvars

\* insert_reviews, the loop that builds data_to_insert: rows whose bank is not
\* in the lookup are skipped; int(row['rating']) raises ValueError on NaN.
Resolvable(lk, row) == LookupGet(lk, row.bank_code) # 0

\* The loop without its 'continue'.
ToInsertAll(lk, rows) == rows

ToInsert(lk, rows) == SelectPos(rows, {i \in 1..Len(rows) : Resolvable(lk, rows[i])})

BuildRaises(lk, rows) == \E i \in 1..Len(rows) : Resolvable(lk, rows[i]) /\ rows[i].rating.na

\* CHECK (rating >= 1 AND rating <= 5)
CheckRating(r) == r >= 1 /\ r <= 5

\* INSERT INTO reviews ... ON CONFLICT DO NOTHING, one statement: the only
\* unique constraint of the table is the primary key review_id.
InsertReview(tbl, id, bank_id, row) ==
    IF \E i \in 1..Len(tbl) : tbl[i].review_id = id
    THEN tbl
    ELSE Append(tbl, [review_id |-> id, bank_id |-> bank_id,
                      review_text |-> row.review_text, rating |-> row.rating.v])

RECURSIVE InsertReviewsBatch(_, _, _, _)
InsertReviewsBatch(tbl, seq, lk, data) ==
    IF data = <<>> THEN tbl
    ELSE InsertReviewsBatch(
             InsertReview(tbl, seq, LookupGet(lk, Head(data).bank_code), Head(data)),
             seq + 1, lk, Tail(data))

\* The position in data of the first row the CHECK rejects, 0 when none.
FirstRejected(data) ==
    IF \E i \in 1..Len(data) : ~CheckRating(data[i].rating.v)
    THEN CHOOSE i \in 1..Len(data) :
           /\ ~CheckRating(data[i].rating.v)
           /\ \A j \in 1..(i - 1) : CheckRating(data[j].rating.v)
    ELSE 0

insert_reviews_ok ==
    /\ lpc = "insert_reviews"
    /\ ~BuildRaises(lookup, artifact.rows)
    /\ LET data == ToInsert(lookup, artifact.rows)
       IN /\ FirstRejected(data) = 0
          /\ reviews' = InsertReviewsBatch(reviews, reviewSeq, lookup, data)
          /\ reviewSeq' = reviewSeq + Len(data)
    /\ outcome' = "complete"
    /\ lpc' = "finally"
    /\ UNCHANGED <<everInserted, artifact, run, attempt, sleeps, connectCalls, conn,
                   tablesExist, banks, bankSeq, lookup, err, exitCode, atStart, runLog>>
    /\ UNCHANGED nvars

\* insert_reviews: int() raises while the tuples are built; no statement ran.
insert_reviews_value_error ==
    /\ lpc = "insert_reviews"
    /\ BuildRaises(lookup, artifact.rows)
    /\ err' = "ValueError"
    /\ lpc' = "except"
    /\ UNCHANGED <<everInserted, artifact, run, attempt, sleeps, connectCalls, conn, store,
                   lookup, outcome, exitCode, atStart, runLog>>
    /\ UNCHANGED nvars

\* insert_reviews: a row violates the CHECK; rollback, re-raise. The sequence
\* values drawn before it are not given back.
insert_reviews_check_violation ==
    /\ lpc = "insert_reviews"
    /\ ~BuildRaises(lookup, artifact.rows)
    /\ FirstRejected(ToInsert(lookup, artifact.rows)) # 0
    /\ reviews' = RolledBack(reviews,
                      InsertReviewsBatch(reviews, reviewSeq, lookup,
                          SubSeq(ToInsert(lookup, artifact.rows), 1,
                                 FirstRejected(ToInsert(lookup, artifact.rows)) - 1)))
    /\ reviewSeq' = reviewSeq + FirstRejected(ToInsert(lookup, artifact.rows))
    /\ err' = "CheckViolation"
    /\ lpc' = "except"
    /\ UNCHANGED <<everInserted, artifact, run, attempt, sleeps, connectCalls, conn,
                   tablesExist, banks, bankSeq, lookup, outcome,
                   exitCode, atStart, runLog>>
    /\ UNCHANGED nvars

\* insert_reviews: the store fails for another reason; rollback, re-raise.
insert_reviews_store_error ==
    /\ lpc = "insert_reviews"
    /\ ~BuildRaises(lookup, artifact.rows)
    /\ err' = "StoreError"
    /\ lpc' = "except"
    /\ UNCHANGED <<everInserted, artifact, run, attempt, sleeps, connectCalls, conn, store,
                   lookup, outcome, exitCode, atStart, runLog>>
    /\ UNCHANGED nvars

\* An except clause that only prints the error.
ExceptExitCodeSilent(c) == 0

\* 'if conn: sys.exit(1)': the exit status the except clause asks for.
ExceptExitCode(c) == IF c # "none" THEN 1 ELSE 0

\* main's except clause: conn is set, so sys.exit(1); the finally clause runs
\* as SystemExit leaves the try statement.
ExceptClause ==
    /\ lpc = "except"
    /\ outcome' = "failed"
    /\ exitCode' = ExceptExitCode(conn)
    /\ lpc' = "finally"
    /\ UNCHANGED <<everInserted, artifact, run, attempt, sleeps, connectCalls, conn, store,
                   lookup, err, atStart, runLog>>
    /\ UNCHANGED nvars

\* A finally clause without conn.close().
LeaveOpen(c) == c

\* 'if conn: conn.close()'.
CloseIfOpen(c) == IF c # "none" THEN "closed" ELSE c

\* main's finally clause, then the process ends.
FinallyClause ==
    /\ lpc = "finally"
    /\ conn' = CloseIfOpen(conn)
    /\ Exit(outcome, IF exitCode = -1 THEN 0 ELSE exitCode)
    /\ UNCHANGED <<everInserted, artifact, run, attempt, sleeps, connectCalls, store, lookup,
                   err, atStart>>
    /\ UNCHANGED nvars

LoaderIdle ==
    /\ lpc = "idle"
    /\ run = 0
    /\ attempt = 0
    /\ sleeps = <<>>
    /\ connectCalls = 0
    /\ conn = "none"
    /\ tablesExist = FALSE
    /\ banks = <<>>
    /\ reviews = <<>>
    /\ bankSeq = 1
    /\ reviewSeq = 1
    /\ lookup = {}
    /\ everInserted = {}
    /\ err = "none"
    /\ outcome = "none"
    /\ exitCode = -1
    /\ atStart = [tablesExist |-> FALSE, banks |-> <<>>, reviews |-> <<>>]
    /\ runLog = <<>>

LoaderNext ==
    \/ StartRun
    \/ InputAbort
    \/ InputOk
    \/ ConnectOk
    \/ ConnectRetry
    \/ ConnectGiveUp
    \/ create_tables_ok
    \/ create_tables_fail
    \/ insert_banks_ok
    \/ insert_banks_fail
    \/ insert_reviews_ok
    \/ insert_reviews_value_error
    \/ insert_reviews_check_violation
    \/ insert_reviews_store_error
    \/ ExceptClause
    \/ FinallyClause

\* ---------------------------------------------------------- specifications

vars == <<nvars, lvars>>

NormalizerIdle ==
    /\ rawFile = [exists |-> FALSE, rows |-> <<>>]
    /\ df = <<>>
    /\ dfPrev = <<>>
    /\ hasDate = FALSE
    /\ dateError = FALSE
    /\ stats = NoStats
    /\ npc = "not_started"
    /\ output = [written |-> FALSE, rows |-> <<>>]
    /\ report = NoReport

NormalizerInit ==
    /\ rawFile \in {[exists |-> FALSE, rows |-> <<>>]}
                     \cup {[exists |-> TRUE, rows |-> b] : b \in RawBatches}
    /\ df = <<>>
    /\ dfPrev = <<>>
    /\ hasDate = FALSE
    /\ dateError = FALSE
    /\ stats = NoStats
    /\ npc = "load_data"
    /\ output = [written |-> FALSE, rows |-> <<>>]
    /\ report = NoReport

NormalizerNext ==
    \/ LoadDataOk
    \/ LoadDataFail
    \/ remove_duplicates
    \/ handle_missing_values
    \/ normalize_dates
    \/ clean_text
    \/ validate_ratings
    \/ prepare_final_output_ok
    \/ prepare_final_output_raise
    \/ save_data_ok
    \/ save_data_fail
    \/ generate_report

\* One run of the preprocessor on any raw file; the loader does not run.
NormalizerStart ==
    /\ NormalizerInit
    /\ LoaderIdle
    /\ artifact = [state |-> "missing", rows |-> <<>>]

NormalizerSpec == NormalizerStart /\ [][NormalizerNext]_vars

\* Repeated runs of the loader against one store and one final artifact; the
\* preprocessor does not run.
LoaderStart ==
    /\ NormalizerIdle
    /\ LoaderIdle
    /\ artifact \in {[state |-> "ok", rows |-> b] : b \in FinalBatches}

LoaderSpec == LoaderStart /\ [][LoaderNext]_vars

\* ------------------------------------------------------- preprocessor claims

\* The dataframe load_data built from the raw file.
Loaded == [i \in 1..Len(rawFile.rows) |-> ReadRow(rawFile.rows, i)]

PresentText(cell) == ~cell.na /\ cell.v # <<>>

\* C1: whenever process() has written its output, every emitted record has a
\* non-empty review text, a date, and a rating within 1..5.
C1_EmittedRecordsValid ==
    output.written =>
        \A i \in 1..Len(output.rows) :
            /\ PresentText(output.rows[i].review)
            /\ "date" \in DOMAIN output.rows[i]
            /\ output.rows[i].rating \in 1..5

AfterValidateRatings == npc = "prepare_final_output"

\* C2: right after validate_ratings every surviving rating is an integer in
\* [1,5] (ratings are held in tenths: integral means a multiple of 10).
C2_RatingsIntegralAfterPass5 ==
    AfterValidateRatings =>
        \A i \in 1..Len(df) :
            /\ ~df[i].rating.na
            /\ df[i].rating.v % 10 = 0
            /\ df[i].rating.v \in 10..50

AfterRemoveDuplicates == npc = "handle_missing_values"

FirstOfGroup(rows, i) == \A j \in 1..(i - 1) : ~SameDupKey(rows[j], rows[i])

\* C3: right after remove_duplicates no two rows share (review_text,
\* bank_code); of every group of input rows with one key exactly the first
\* survives, unchanged; survivors keep their input order; duplicates_removed
\* is the number of rows dropped.
C3_DedupFirstWins ==
    AfterRemoveDuplicates =>
        /\ \A i, j \in 1..Len(df) : i # j => ~SameDupKey(df[i], df[j])
        /\ \A i \in 1..Len(dfPrev) :
              FirstOfGroup(dfPrev, i) <=> (\E k \in 1..Len(df) : df[k] = dfPrev[i])
        /\ \A k \in 1..Len(df) : \E i \in 1..Len(dfPrev) : df[k] = dfPrev[i]
        /\ \A i, j \in 1..Len(df) : i < j => df[i].index < df[j].index
        /\ StatGet("duplicates_removed") = Len(dfPrev) - Len(df)
        /\ dfPrev = Loaded

C3_Witness ==
    /\ AfterRemoveDuplicates
    /\ StatGet("duplicates_removed") >= 1
    /\ Len(df) >= 2
    /\ \E i, j \in 1..Len(dfPrev) : i + 1 < j /\ SameDupKey(dfPrev[i], dfPrev[j])

AfterHandleMissing == npc = "normalize_dates"

HasCritical(r) == ~r.review_text.na /\ ~r.rating.na /\ ~r.review_date.na

\* C4: right after handle_missing_values no row lacks review_text, rating or
\* review_date; every row that had all three survives, in order; reply_content
\* and app_id are present, defaulted to '' and 'N/A' where they were missing.
C4_MissingValuesHandled ==
    AfterHandleMissing =>
        /\ \A k \in 1..Len(df) :
              /\ PresentText(df[k].review_text)
              /\ PresentText(df[k].rating)
              /\ ~df[k].review_date.na
              /\ ~df[k].reply_content.na
              /\ ~df[k].app_id.na
              /\ \E i \in 1..Len(dfPrev) :
                    /\ dfPrev[i].index = df[k].index
                    /\ df[k].reply_content =
                         (IF dfPrev[i].reply_content.na THEN Val(<<>>)
                          ELSE dfPrev[i].reply_content)
                    /\ df[k].app_id =
                         (IF dfPrev[i].app_id.na THEN Val(<<"N", "/", "A">>)
                          ELSE dfPrev[i].app_id)
        /\ \A i \in 1..Len(dfPrev) :
              HasCritical(dfPrev[i]) => \E k \in 1..Len(df) : df[k].index = dfPrev[i].index

C4_Witness ==
    /\ AfterHandleMissing
    /\ StatGet("rows_removed_missing") >= 1
    /\ \E k \in 1..Len(df) : df[k].reply_content = Val(<<>>)
    /\ \E k \in 1..Len(df) : df[k].reply_content # Val(<<>>)

\* C5: a review_date that cannot be parsed ends the run inside pass 3: the
\* error leaves normalize_dates, so text cleaning, rating validation and
\* projection are not entered after it, and no output is written.
C5_DateFailureStopsPasses ==
    dateError =>
        /\ npc \notin {"clean_text", "validate_ratings", "prepare_final_output"}
        /\ ~output.written

CleanInput ==
    /\ \A i, j \in 1..Len(Loaded) : i # j => ~SameDupKey(Loaded[i], Loaded[j])
    /\ \A i \in 1..Len(Loaded) :
          /\ HasCritical(Loaded[i])
          /\ ~to_numeric(Loaded[i].rating).na
          /\ to_numeric(Loaded[i].rating).v \in {10, 20, 30, 40, 50}

\* C6: on a successful run the three removal counters add up to
\* original_count - final_count, the reported loss is that share of the
\* original rows, and it is 0 for an input without duplicates, missing
\* critical fields or invalid ratings.
C6_RemovalsAccountForLoss ==
    npc = "returned_true" =>
        /\ report.printed
        /\ output.written
        /\ report.original_count = Len(rawFile.rows)
        /\ report.final_count = Len(output.rows)
        /\ StatGet("duplicates_removed") + StatGet("rows_removed_missing")
             + StatGet("rows_removed_invalid_rating")
             = Len(rawFile.rows) - Len(output.rows)
        /\ report.total_removed = Len(rawFile.rows) - Len(output.rows)
        /\ Len(rawFile.rows) > 0 =>
              report.data_loss_pct
                = ((Len(rawFile.rows) - Len(output.rows)) * 10000) \div Len(rawFile.rows)
        /\ CleanInput => report.data_loss_pct = 0 /\ report.total_removed = 0

C6_Witness ==
    /\ npc = "returned_true"
    /\ StatGet("duplicates_removed") = 1
    /\ StatGet("rows_removed_missing") = 1
    /\ StatGet("rows_removed_invalid_rating") = 1
    /\ report.data_loss_pct = 10000

\* ------------------------------------------------------------ loader claims

\* C7: a second complete run against the same artifact leaves the number of
\* rows of reviews what the first complete run, on the empty store, made it.
C7_SecondRunAddsNoFacts ==
    (/\ Len(runLog) >= 2
     /\ runLog[1].outcome = "complete"
     /\ runLog[2].outcome = "complete"
     /\ runLog[1].rows = runLog[2].rows) =>
        runLog[2].facts = runLog[1].facts

BankCodesStored == {banks[i].bank_code : i \in 1..Len(banks)}

C8_OneRowPerCode ==
    /\ \A i, j \in 1..Len(banks) : i # j => banks[i].bank_code # banks[j].bank_code
    /\ BankCodesStored = everInserted

C8_RowsKept == \A i \in 1..Len(banks) : i <= Len(banks') /\ banks'[i] = banks[i]

\* C8: banks holds exactly one row for every bank code a committed
\* insert_banks call inserted, and no step changes or removes a row of it.
C8_BanksAppendOnly == []C8_OneRowPerCode /\ [][C8_RowsKept]_vars

C8_Witness ==
    /\ run = 2
    /\ lpc = "insert_reviews"
    /\ Len(banks) >= 2
    /\ bankSeq > Len(banks) + 2
    /\ Len(atStart.banks) = Len(banks)

IsKey(lk, cell) == \E p \in lk : cell = Val(p[1])

HasUnknownBank == \E i \in 1..Len(artifact.rows) : ~IsKey(lookup, artifact.rows[i].bank_code)

KnownRows ==
    SelectPos(artifact.rows,
              {i \in 1..Len(artifact.rows) : IsKey(lookup, artifact.rows[i].bank_code)})

NewFacts == SubSeq(reviews, Len(atStart.reviews) + 1, Len(reviews))

ReviewsPhaseEnded ==
    /\ lpc \in {"except", "finally", "exited"}
    /\ outcome = "complete" \/ err \in {"ValueError", "CheckViolation", "StoreError"}

\* C9: when insert_reviews has run on a batch with a record whose bank_code is
\* no key of the lookup, that record gave no fact row; unless the store or
\* another record made the insert fail, every other record was inserted, in
\* order, and the run ends with status 0. The skipped record itself never
\* makes the insert fail.
C9_UnknownBankSkipped ==
    (ReviewsPhaseEnded /\ HasUnknownBank) =>
        /\ err = "none" =>
              /\ outcome = "complete"
              /\ Len(NewFacts) = Len(KnownRows)
              /\ \A k \in 1..Len(NewFacts) :
                    /\ <<KnownRows[k].bank_code.v, NewFacts[k].bank_id>> \in lookup
                    /\ NewFacts[k].rating = KnownRows[k].rating.v
                    /\ NewFacts[k].review_text = KnownRows[k].review_text
              /\ lpc = "exited" => exitCode = 0
        /\ err # "none" => NewFacts = <<>>
        /\ err = "ValueError" => \E k \in 1..Len(KnownRows) : KnownRows[k].rating.na
        /\ err = "CheckViolation" =>
              \E k \in 1..Len(KnownRows) :
                  ~KnownRows[k].rating.na /\ KnownRows[k].rating.v \notin 1..5

C9_Witness ==
    /\ lpc = "exited"
    /\ outcome = "complete"
    /\ HasUnknownBank
    /\ Len(artifact.rows) = 2
    /\ Len(NewFacts) = 1

InputInvalid == artifact.state # "ok"

\* C10: in a run whose input file is missing, unreadable or lacks a required
\* column, connect is never called, no connection exists, and the tables and
\* rows of the store stay as the run found them.
C10_InputErrorLeavesStore ==
    (lpc # "idle" /\ InputInvalid) =>
        /\ lpc \in {"main", "exited"}
        /\ connectCalls = 0
        /\ conn = "none"
        /\ Snapshot = atStart
        /\ lookup = {}

C10_Witness ==
    /\ run = 2
    /\ lpc = "exited"
    /\ artifact.state = "no_theme_column"
    /\ Len(reviews) >= 1
    /\ Len(banks) >= 1


InputAborts == {"input_missing", "input_unreadable", "columns_missing"}

Aborted == InputAborts \cup {"no_connection", "failed"}

\* C11: every Loader run that aborts on an input error or on a store error
\* (connection given up, create_tables, insert_banks or insert_reviews failed)
\* ends with a non-zero exit status, and only a run that completed all phases
\* ends with status zero.
C11_AbortExitsNonZero ==
    lpc = "exited" =>
        /\ outcome \in Aborted => exitCode # 0
        /\ exitCode = 0 => outcome = "complete"

\* C11, as the code has it: the exit status is 1 exactly when an exception
\* reached main's except clause with the connection held (create_tables,
\* insert_banks or insert_reviews raised); a run that stops on an input error,
\* on the connection given up after the last attempt, or on an empty lookup
\* returns from main and ends with status 0, as a complete run does.
C11_ExitStatusByPath ==
    lpc = "exited" =>
        /\ exitCode \in {0, 1}
        /\ exitCode = 1 <=>
               /\ err \in {"create_tables", "insert_banks", "ValueError",
                           "CheckViolation", "StoreError"}
               /\ outcome = "failed"
        /\ outcome \in InputAborts \cup {"no_connection", "empty_lookup", "complete"}
               => exitCode = 0 /\ err = "none"
        /\ runLog[Len(runLog)].exitCode = exitCode

C11_Witness ==
    /\ lpc = "exited"
    /\ Len(runLog) = 2
    /\ runLog[1].outcome = "no_connection"
    /\ runLog[1].exitCode = 0
    /\ runLog[2].outcome = "failed"
    /\ runLog[2].exitCode = 1
    /\ err = "create_tables"


\* The run got a connection from connect_to_db.
Acquired == conn # "none"

\* A step that runs a statement on the connection: it is a step of one of the
\* three store phases, or it writes a table or draws a sequence value.
UsesConnection ==
    \/ store' # store
    \/ lpc \in {"create_tables", "insert_banks", "insert_reviews"}

\* C12: in every Loader run that acquired a connection, the connection is
\* closed when the run ends, on every exit path (complete, early return on
\* empty lookup, an exception from create_tables, insert_banks or
\* insert_reviews followed by sys.exit(1)); a closed connection is never used
\* afterwards, and a run that ended holds no open connection.
C12_ConnectionClosedOnExit ==
    /\ [](lpc = "exited" =>
            /\ conn # "open"
            /\ outcome \in {"complete", "empty_lookup", "failed"} =>
                   conn = "closed"
            /\ connectCalls > Len(sleeps) /\ outcome # "no_connection" =>
                   conn = "closed")
    /\ [][UsesConnection => conn = "open" /\ conn' = "open"]_vars
    /\ [][conn = "closed" /\ conn' # "closed" =>
              lpc = "exited" /\ lpc' = "main" /\ conn' = "none"]_vars

C12_Witness ==
    /\ lpc = "exited"
    /\ conn = "closed"
    /\ outcome = "empty_lookup"
    /\ exitCode = 0


ReviewsPhaseFailed == err \in {"ValueError", "CheckViolation", "StoreError"}

BanksPhaseFailed == err = "insert_banks"

\* The codes of the artifact, as the store holds them.
ArtifactCodes == {Adapt(artifact.rows[i].bank_code) : i \in 1..Len(artifact.rows)}

IsPrefix(s, t) == Len(s) <= Len(t) /\ SubSeq(t, 1, Len(s)) = s

\* C13: the two phases are separate transactions. When insert_reviews fails,
\* no fact row of that phase is in the store, and the dimension rows that
\* insert_banks committed in the same run stay. When insert_banks fails, no
\* dimension row of that phase is in the store and insert_reviews is never
\* executed: no fact row is written and no review_id is drawn.
C13_PhasesAreSeparateTransactions ==
    /\ [](ReviewsPhaseFailed =>
            /\ reviews = atStart.reviews
            /\ IsPrefix(atStart.banks, banks)
            /\ ArtifactCodes \subseteq BankCodesStored
            /\ lookup = LookupOf(banks))
    /\ [](BanksPhaseFailed =>
            /\ banks = atStart.banks
            /\ reviews = atStart.reviews
            /\ lookup = {}
            /\ outcome # "complete")
    /\ [][BanksPhaseFailed =>
              /\ reviews' = reviews
              /\ reviewSeq' = reviewSeq
              /\ lpc' # "insert_reviews"]_vars

\* A first run whose insert_banks failed after a statement that drew a
\* bank_id, then a run whose insert_banks added a bank and whose insert_reviews
\* failed on its second row.
C13_Witness ==
    /\ lpc = "exited"
    /\ Len(runLog) = 2
    /\ runLog[1].outcome = "failed"
    /\ atStart.banks = <<>>
    /\ Len(banks) > 0
    /\ banks[1].bank_id > 1
    /\ err = "CheckViolation"
    /\ FirstRejected(ToInsert(lookup, artifact.rows)) = 2
    /\ reviews = atStart.reviews


\* connect_to_db has returned in this run.
ConnectReturned == lpc \notin {"idle", "main", "connect"} /\ connectCalls > 0

\* C14: connect_to_db ends after at most 3 attempts. It waits 1 second after
\* the first failed attempt and 2 seconds after the second, and not after the
\* third; it returns the connection of the first attempt that succeeds and
\* attempts no more; it returns None exactly when all 3 attempts failed.
C14_ConnectBounded ==
    /\ [](/\ connectCalls <= 3
          /\ sleeps \in {<<>>, <<1>>, <<1, 2>>}
          /\ lpc = "connect" => connectCalls = Len(sleeps) /\ connectCalls < 3)
    /\ [](ConnectReturned =>
            /\ conn = "none" => connectCalls = 3 /\ sleeps = <<1, 2>>
            /\ conn # "none" => connectCalls = Len(sleeps) + 1
            /\ outcome = "no_connection" <=> conn = "none")
    /\ [][ConnectReturned /\ run' = run =>
              connectCalls' = connectCalls /\ sleeps' = sleeps]_vars

C14_Witness ==
    /\ lpc = "exited"
    /\ outcome = "no_connection"
    /\ connectCalls = 3
    /\ sleeps = <<1, 2>>
    /\ Len(runLog) = 2
    /\ runLog[1].outcome = "complete"


\* The loaded record an emitted record stems from (the index label is kept by
\* every pass).
RawOf(o) == Loaded[o.index + 1]

SamePair(a, b) == a.review = b.review /\ a.bank = b.bank

\* C15: no two records of the final output of process() share the same
\* (review, bank) pair, also when two raw records of one bank have texts that
\* differ only in letter case or surrounding whitespace.
C15_OutputPairsUnique ==
    output.written =>
        \A i, j \in 1..Len(output.rows) :
            i # j => ~SamePair(output.rows[i], output.rows[j])

\* C15, as the code has it: pass 1 compares the texts as loaded, so no two
\* emitted records stem from raw records with the same (review_text,
\* bank_code) pair; two emitted records share a (review, bank) pair exactly
\* when their raw records are of one bank and their raw texts differ but are
\* equal after the cleaning of pass 4.
C15_RawPairsUnique ==
    output.written =>
        \A i, j \in 1..Len(output.rows) :
            i # j =>
                /\ output.rows[i].index # output.rows[j].index
                /\ ~SameDupKey(RawOf(output.rows[i]), RawOf(output.rows[j]))
                /\ SamePair(output.rows[i], output.rows[j]) <=>
                       /\ RawOf(output.rows[i]).bank_code =
                              RawOf(output.rows[j]).bank_code
                       /\ RawOf(output.rows[i]).review_text #
                              RawOf(output.rows[j]).review_text
                       /\ basic_text_clean(RawOf(output.rows[i]).review_text) =
                              basic_text_clean(RawOf(output.rows[j]).review_text)

\* Three raw records of one bank: two with the same text, of which pass 1
\* drops the second, and one that differs from them in case and whitespace
\* only and is emitted with the same cleaned text.
C15_Witness ==
    /\ output.written
    /\ Len(rawFile.rows) = 3
    /\ Len(output.rows) = 2
    /\ StatGet("duplicates_removed") = 1
    /\ SamePair(output.rows[1], output.rows[2])
    /\ RawOf(output.rows[1]).review_text # RawOf(output.rows[2]).review_text

====
